---- MODULE Spec2Model ----
(***************************************************************************)
(* Model of jenkins-mcp: the MCP server (src/jenkins_mcp/server.py) and    *)
(* the reference client (src/scripts/jenkins_api_fix.py).                  *)
(*                                                                         *)
(* Two programs share this module.  Spec is the MCP server: the lifespan   *)
(* that builds the JenkinsContext and the trigger_build tool.  SpecFix is  *)
(* the reference script: main, list_jobs, trigger_build and the executor   *)
(* make_jenkins_request they all go through.                               *)
(*                                                                         *)
(* Python values: Optional[T] is a sequence of length 0 (None) or 1; a     *)
(* dict of strings (crumb header, cookies, build parameters) is a set of   *)
(* <<key, value>> pairs with distinct keys; a decoded JSON object is a      *)
(* record of Optional fields, None for a key the object lacks; a str that  *)
(* the code inspects (response text, Location header) is a sequence of     *)
(* one-character strings.                                                  *)
(***************************************************************************)
EXTENDS Integers, Sequences, FiniteSets, TLC

\* ------------------------------------------------------------------ bounds
\* How many trigger_build tool calls one server session serves in the model.
MaxCalls == 2
MaxTasks == 2

\* ------------------------------------------------------- Python values
None == <<>>
Some(x) == <<x>>
IsNone(o) == o = <<>>
Val(o) == o[1]

EmptyDict == {}
\* Python truthiness of an Optional[dict]: None and {} are both falsy.
Truthy(o) == Len(o) = 1 /\ o[1] # EmptyDict

\* needle in hay, for str
Contains(needle, hay) ==
    \E i \in 0..(Len(hay) - Len(needle)) :
        SubSeq(hay, i + 1, i + Len(needle)) = needle

UpperChars == <<"A","B","C","D","E","F","I","L","M","N","O","R","S","T","U","V">>
LowerChars == <<"a","b","c","d","e","f","i","l","m","n","o","r","s","t","u","v">>

\* str.lower()
LowerChar(c) ==
    IF \E i \in 1..Len(UpperChars) : UpperChars[i] = c
    THEN LowerChars[CHOOSE i \in 1..Len(UpperChars) : UpperChars[i] = c]
    ELSE c
Lower(s) == [i \in 1..Len(s) |-> LowerChar(s[i])]

\* split(":") without the maxsplit: the first two of all the parts
SplitOnce_every(s) ==
    LET k == CHOOSE i \in 1..Len(s) : s[i] = ":" /\ \A j \in 1..(i - 1) : s[j] # ":"
        rest == SubSeq(s, k + 1, Len(s))
    IN  IF \E i \in 1..Len(rest) : rest[i] = ":"
        THEN <<SubSeq(s, 1, k - 1),
               SubSeq(rest, 1, (CHOOSE i \in 1..Len(rest) :
                                  rest[i] = ":" /\ \A j \in 1..(i - 1) : rest[j] # ":") - 1)>>
        ELSE <<SubSeq(s, 1, k - 1), rest>>

\* str.split(":", 1) of a text that holds a ":": the parts around the first one
SplitOnce(s) ==
    LET k == CHOOSE i \in 1..Len(s) : s[i] = ":" /\ \A j \in 1..(i - 1) : s[j] # ":"
    IN  <<SubSeq(s, 1, k - 1), SubSeq(s, k + 1, Len(s))>>

\* str.rstrip('/')
RECURSIVE RStrip(_)
RStrip(s) ==
    IF s # <<>> /\ s[Len(s)] = "/" THEN RStrip(SubSeq(s, 1, Len(s) - 1)) ELSE s

\* str.split('/'): one more part than there are separators, empty parts kept
RECURSIVE Split(_)
Split(s) ==
    IF \A i \in 1..Len(s) : s[i] # "/"
    THEN <<s>>
    ELSE LET k == CHOOSE i \in 1..Len(s) :
                      s[i] = "/" /\ \A j \in 1..(i - 1) : s[j] # "/"
         IN  <<SubSeq(s, 1, k - 1)>> \o Split(SubSeq(s, k + 1, Len(s)))

DigitChars == <<"0", "1", "2", "3", "4", "5", "6", "7", "8", "9">>
Digits == { DigitChars[i] : i \in 1..Len(DigitChars) }
DigitVal(c) == (CHOOSE i \in 1..Len(DigitChars) : DigitChars[i] = c) - 1

RECURSIVE DecimalValue(_)
DecimalValue(s) ==
    IF s = <<>> THEN 0
    ELSE 10 * DecimalValue(SubSeq(s, 1, Len(s) - 1)) + DigitVal(s[Len(s)])

\* int(str): Some(n), or None where Python raises ValueError.  A sign is
\* accepted in front of the digits, as Python does.
PyInt(s) ==
    LET signed == s # <<>> /\ s[1] \in {"+", "-"}
        digits == IF signed THEN SubSeq(s, 2, Len(s)) ELSE s
    IN  IF digits = <<>> \/ \E i \in 1..Len(digits) : digits[i] \notin Digits
        THEN None
        ELSE IF signed /\ s[1] = "-"
             THEN Some(0 - DecimalValue(digits))
             ELSE Some(DecimalValue(digits))

\* str(n) for n >= 0
RECURSIVE PyStr(_)
PyStr(n) ==
    IF n < 10 THEN <<DigitChars[n + 1]>>
    ELSE PyStr(n \div 10) \o <<DigitChars[(n % 10) + 1]>>

TextItem == <<"i","t","e","m">>

\* The queue id read from the Location header, the same lines in both
\* trigger_build functions.  raises: the IndexError of queue_parts[-2] on a
\* value with a single part; a ValueError of int() is caught there.
QueueIdOf(location) ==
    IF IsNone(location) \/ Val(location) = <<>>
    THEN [raises |-> FALSE, queue_id |-> None]
    ELSE LET queue_parts == Split(RStrip(Val(location))) IN
         IF Len(queue_parts) < 2
         THEN [raises |-> TRUE, queue_id |-> None]
         ELSE IF queue_parts[Len(queue_parts) - 1] = TextItem
              THEN [raises |-> FALSE, queue_id |-> PyInt(queue_parts[Len(queue_parts)])]
              ELSE [raises |-> FALSE, queue_id |-> None]

\* --------------------------------------------------------- server replies
Statuses == {200, 201, 302, 403, 404, 500}

NoText == <<>>
TextNoValidCrumb == <<"N","o"," ","v","a","l","i","d"," ","c","r","u","m","b">>
TextInvalidCrumb == <<"I","n","v","a","l","i","d"," ","c","r","u","m","b">>
TextLowerNoValidCrumb == <<"n","o"," ","v","a","l","i","d"," ","c","r","u","m","b">>
TextUpperInvalidCrumb == <<"I","N","V","A","L","I","D"," ","C","R","U","M","B">>
TextWrappedNoValidCrumb ==
    <<"4","0","3",":"," ">> \o TextNoValidCrumb \o <<" ","w","a","s"," ","s","e","n","t">>
TextForbidden == <<"F","o","r","b","i","d","d","e","n">>

Bodies ==
    { NoText, TextNoValidCrumb, TextInvalidCrumb, TextLowerNoValidCrumb,
      TextUpperInvalidCrumb, TextWrappedNoValidCrumb, TextForbidden }

LocQueueItem == <<"q","/","i","t","e","m","/","1","2","/">>
LocQueueItemNoSlash == <<"q","/","i","t","e","m","/","3">>
LocNoSeparator == <<"a","b","c">>
LocOnlySlash == <<"/">>
LocNotItem == <<"q","/","x","/","1","2","/">>
LocNotNumber == <<"q","/","i","t","e","m","/","a","b","/">>
LocEmpty == <<>>

Locations ==
    { LocQueueItem, LocQueueItemNoSlash, LocNoSeparator, LocOnlySlash,
      LocNotItem, LocNotNumber, LocEmpty }

JobUrl == <<"j", "/">>
NextBuildNumbers == {42, 43}

\* A decoded JSON object, by the keys the code reads.
Json(field, value, url, number) ==
    [crumbRequestField |-> field, crumb |-> value, url |-> url, nextBuildNumber |-> number]
EmptyJson == Json(None, None, None, None)

\* Job metadata as the server answers it.
JobJsons ==
    { Json(None, None, Some(JobUrl), Some(n)) : n \in NextBuildNumbers }
    \cup { Json(None, None, Some(JobUrl), None) }

\* Bodies of the crumb issuer's JSON endpoint.
CrumbFields == {"Jenkins-Crumb"}
CrumbValues == {"c1", "c2"}
CrumbJsons ==
    { Json(f, v, None, None) :
        f \in {None} \cup { Some(x) : x \in CrumbFields },
        v \in {None} \cup { Some(x) : x \in CrumbValues } }

\* An HTTP response as the code reads it: status_code, text, the Location
\* header (headers.get('Location')) and the decoded JSON body (None where
\* response.json() raises).
Reply(status, text, location, json) ==
    [status_code |-> status, text |-> text, Location |-> location, json |-> json]

Replies ==
    { Reply(s, t, None, None) : s \in Statuses, t \in Bodies }
    \cup { Reply(s, NoText, Some(l), None) : s \in Statuses, l \in Locations }
    \cup { Reply(200, NoText, None, Some(j)) : j \in JobJsons }

CrumbReplies ==
    { Reply(s, NoText, None, Some(j)) : s \in {200, 404}, j \in CrumbJsons }
    \cup { Reply(200, TextForbidden, None, None) }

\* What one HTTP call gives the code: None where the call raises (connection
\* refused, timeout reported by the transport), else the response.
Outcomes(replies) == {None} \cup { Some(r) : r \in replies }

\* ------------------------------------------------------------- the state
VARIABLES
    \* --- scripts/jenkins_api_fix.py
    pc,            \* where main is: "start", "list_jobs", "job_info", "build", "done"
    argv,          \* [job_name, parameters] as main reads the command line, job_name
                   \*   None when absent
    crumb,         \* main's local crumb, handed to every call it makes
    exit_code,     \* main's return value, None while it runs
    fix_job_info,  \* the job_info the script's trigger_build decoded, None before
    fix_result,    \* what the script's trigger_build returned, None for None
    xpc,           \* where make_jenkins_request is: "idle", "request", "refresh",
                   \*   "returned", "raised"
    frame,         \* the arguments of the running make_jenkins_request invocation
    sent,          \* the requests the running executor call has sent, in order
    received,      \* the responses it has received, in order
    fetched,       \* the new_crumb of each crumb re-fetch it has made, in order
    response,      \* the response it returned to its caller
    refreshed,     \* the new_crumb of the session's last re-fetch that gave one,
                   \*   None before
    logger         \* the records get_jenkins_crumb has handed to logger, in order

VARIABLES
    \* --- jenkins_mcp/server.py
    env_use_token, \* the environment's JENKINS_USE_API_TOKEN, None when unset
    ctx,           \* the JenkinsContext the lifespan yielded, None before
    crumb_gets,    \* what each get_jenkins_crumb call of the lifespan got from the server
    tpc,           \* where trigger_build is: "idle", "lookup", "post", "build_job",
                   \*   "done", "raised"
    calls,         \* how many trigger_build calls the session has taken
    args,          \* [job_name, parameters] of the running call
    locals,        \* [crumb_data, session_cookies] as the call read them from ctx
    job_info,      \* what client.get_job_info returned to the call, None before
    lookups,       \* the client.get_job_info calls of the call, by job name
    lookup_returns, \* what each returned, None for a raised call
    posts,         \* the requests the call POSTed itself, in order
    post_replies,  \* what came back for each, None for a raised call
    build_jobs,    \* the client.build_job calls of the call, as [job_name, parameters]
    build_job_returns, \* what each returned, None for a raised call
    result,        \* the dict the call returned, None when it did not
    error,         \* the ValueError the call raised, as [message, job_name, cause],
                   \*   None when none
    caught,        \* str(e) of each exception the call's except clauses caught, in order
    waiting,       \* the requests call the process is blocked in while no answer
                   \*   comes, None when it is in none
    tasks          \* the trigger_build calls dispatched side by side, each as
                   \*   [at, crumb_data, session_cookies]: the line it has reached
                   \*   and what it has read from the lifespan context

srvvars ==
    <<env_use_token, ctx, crumb_gets, tpc, calls, args, locals, job_info,
      lookups, lookup_returns, posts, post_replies, build_jobs, build_job_returns,
      result, error, caught, waiting, tasks>>

fixvars ==
    <<pc, argv, crumb, exit_code, fix_job_info, fix_result, xpc, frame, sent, received,
      fetched, response, refreshed, logger>>

vars == <<srvvars, fixvars>>

JobNames == {"job-x"}
ParameterSets == { EmptyDict, {<<"param1", "value1">>} }
NoFrame == None

\* ------------------------------------------ scripts/jenkins_api_fix.py
\* get_jenkins_crumb: the crumb header {crumbRequestField: crumb}, or None.
\* `o` is the outcome of session.get on crumbIssuer/api/json.
fix_get_jenkins_crumb(o) ==
    IF IsNone(o) THEN None                            \* except Exception
    ELSE LET r == Val(o) IN
         IF r.status_code # 200 THEN None
         ELSE IF IsNone(r.json) THEN None             \* response.json() raises
         ELSE LET crumb_data == Val(r.json) IN
              IF crumb_data = EmptyJson
                 \/ IsNone(crumb_data.crumbRequestField)
                 \/ IsNone(crumb_data.crumb)
              THEN None
              ELSE Some({<<Val(crumb_data.crumbRequestField), Val(crumb_data.crumb)>>})

\* One record handed to logger: the message, and what the f-string puts
\* into it: a status code, a field name, a response body.
LogRecord(message, status, field, body) ==
    [message |-> message, status |-> status, field |-> field, body |-> body]

\* What get_jenkins_crumb logs for the outcome `o` of its GET: one record on
\* every path.  response.text is the body as the reply carries it.
fix_get_jenkins_crumb_logging(o) ==
    IF IsNone(o)
    THEN << LogRecord("Error getting Jenkins crumb", None, None, None) >>
    ELSE LET r == Val(o) IN
         IF r.status_code # 200
         THEN << LogRecord("Failed to get Jenkins crumb: HTTP", Some(r.status_code),
                           None, None) >>
         ELSE IF IsNone(r.json)
         THEN << LogRecord("Error getting Jenkins crumb", None, None, None) >>
         ELSE LET crumb_data == Val(r.json) IN
              IF crumb_data = EmptyJson
                 \/ IsNone(crumb_data.crumbRequestField)
                 \/ IsNone(crumb_data.crumb)
              THEN << LogRecord("Invalid crumb response format", None, None,
                                Some([text |-> r.text, json |-> r.json])) >>
              ELSE << LogRecord("Got Jenkins crumb: =<masked>", None,
                                crumb_data.crumbRequestField, None) >>

\* The text test on the lower-cased body.
MentionsCrumb_any_case(text) ==
    \/ Contains(Lower(TextNoValidCrumb), Lower(text))
    \/ Contains(Lower(TextInvalidCrumb), Lower(text))

\* The retry condition without its text test: any 403 is retried.
MentionsCrumb_any(text) == TRUE

\* The text test of make_jenkins_request's retry condition.
MentionsCrumb(text) ==
    Contains(TextNoValidCrumb, text) \/ Contains(TextInvalidCrumb, text)

\* headers = {}; if crumb: headers.update(crumb)
RequestHeaders(c) == IF Truthy(c) THEN Val(c) ELSE EmptyDict

\* The request one invocation of make_jenkins_request sends.
RequestOf(f) ==
    [method |-> f.method, path |-> f.path, headers |-> RequestHeaders(f.crumb),
     params |-> f.params, data |-> f.data]

Invocation(method, path, c, params, data, retry) ==
    [method |-> method, path |-> path, crumb |-> c, params |-> params,
     data |-> data, retry_on_auth_failure |-> retry]

\* A caller enters make_jenkins_request with the default retry_on_auth_failure.
Enter(method, path, params) ==
    /\ xpc = "idle"
    /\ xpc' = "request"
    /\ frame' = Some(Invocation(method, path, crumb, params, None, TRUE))
    /\ sent' = <<>>
    /\ received' = <<>>
    /\ fetched' = <<>>
    /\ response' = None

\* One invocation up to its first decision: send, then return the response,
\* raise, or go on to refresh the crumb.
make_jenkins_request ==
    /\ xpc = "request"
    /\ LET f == Val(frame) IN
       /\ sent' = Append(sent, RequestOf(f))
       /\ \E o \in Outcomes(Replies) :
            IF IsNone(o)
            THEN /\ xpc' = "raised"
                 /\ UNCHANGED <<received, response>>
            ELSE /\ received' = Append(received, Val(o))
                 /\ IF /\ Val(o).status_code = 403
                       /\ f.retry_on_auth_failure
                       /\ MentionsCrumb(Val(o).text)
                    THEN xpc' = "refresh" /\ UNCHANGED response
                    ELSE xpc' = "returned" /\ response' = o
    /\ UNCHANGED srvvars
    /\ UNCHANGED <<pc, argv, crumb, exit_code, fix_job_info, fix_result, frame, fetched,
                   refreshed, logger>>

\* refresh_crumb retrying with the crumb that was just rejected.
refresh_crumb_stale ==
    /\ xpc = "refresh"
    /\ \E o \in Outcomes(CrumbReplies) :
         LET new_crumb == fix_get_jenkins_crumb(o)
             f == Val(frame)
         IN  /\ fetched' = Append(fetched, new_crumb)
             /\ logger' = logger \o fix_get_jenkins_crumb_logging(o)
             /\ refreshed' = IF Truthy(new_crumb) THEN new_crumb ELSE refreshed
             /\ IF Truthy(new_crumb)
                THEN /\ frame' = Some(Invocation(f.method, f.path, f.crumb,
                                                 f.params, f.data, FALSE))
                     /\ xpc' = "request"
                     /\ UNCHANGED response
                ELSE /\ xpc' = "returned"
                     /\ response' = Some(received[Len(received)])
                     /\ UNCHANGED frame
    /\ UNCHANGED srvvars
    /\ UNCHANGED <<pc, argv, crumb, exit_code, fix_job_info, fix_result, sent, received>>

\* refresh_crumb retrying under the crumb it was given when the re-fetch
\* gives none.
refresh_crumb_retry_anyway ==
    /\ xpc = "refresh"
    /\ \E o \in Outcomes(CrumbReplies) :
         LET new_crumb == fix_get_jenkins_crumb(o)
             f == Val(frame)
         IN  /\ fetched' = Append(fetched, new_crumb)
             /\ logger' = logger \o fix_get_jenkins_crumb_logging(o)
             /\ refreshed' = IF Truthy(new_crumb) THEN new_crumb ELSE refreshed
             /\ frame' = Some(Invocation(f.method, f.path,
                                         IF Truthy(new_crumb) THEN new_crumb ELSE f.crumb,
                                         f.params, f.data, FALSE))
             /\ xpc' = "request"
             /\ UNCHANGED response
    /\ UNCHANGED srvvars
    /\ UNCHANGED <<pc, argv, crumb, exit_code, fix_job_info, fix_result, sent, received>>

\* refresh_crumb leaving retry_on_auth_failure set in the recursive call.
refresh_crumb_again ==
    /\ xpc = "refresh"
    /\ Len(sent) < 4
    /\ \E o \in Outcomes(CrumbReplies) :
         LET new_crumb == fix_get_jenkins_crumb(o)
             f == Val(frame)
         IN  /\ fetched' = Append(fetched, new_crumb)
             /\ logger' = logger \o fix_get_jenkins_crumb_logging(o)
             /\ refreshed' = IF Truthy(new_crumb) THEN new_crumb ELSE refreshed
             /\ IF Truthy(new_crumb)
                THEN /\ frame' = Some(Invocation(f.method, f.path, new_crumb,
                                                 f.params, f.data, TRUE))
                     /\ xpc' = "request"
                     /\ UNCHANGED response
                ELSE /\ xpc' = "returned"
                     /\ response' = Some(received[Len(received)])
                     /\ UNCHANGED frame
    /\ UNCHANGED srvvars
    /\ UNCHANGED <<pc, argv, crumb, exit_code, fix_job_info, fix_result, sent, received>>

\* The refresh: get_jenkins_crumb, then the recursive invocation with
\* retry_on_auth_failure=False, or the first response when no crumb came.
refresh_crumb ==
    /\ xpc = "refresh"
    /\ \E o \in Outcomes(CrumbReplies) :
         LET new_crumb == fix_get_jenkins_crumb(o)
             f == Val(frame)
         IN  /\ fetched' = Append(fetched, new_crumb)
             /\ logger' = logger \o fix_get_jenkins_crumb_logging(o)
             /\ refreshed' = IF Truthy(new_crumb) THEN new_crumb ELSE refreshed
             /\ IF Truthy(new_crumb)
                THEN /\ frame' = Some(Invocation(f.method, f.path, new_crumb,
                                                 f.params, f.data, FALSE))
                     /\ xpc' = "request"
                     /\ UNCHANGED response
                ELSE /\ xpc' = "returned"
                     /\ response' = Some(received[Len(received)])
                     /\ UNCHANGED frame
    /\ UNCHANGED srvvars
    /\ UNCHANGED <<pc, argv, crumb, exit_code, fix_job_info, fix_result, sent, received>>

\* The dict with the job's url alone as build_url.
BuildResult_job_url(job_name, queue_id, next_build_number, job_url) ==
    [status |-> "triggered", job_name |-> job_name, queue_id |-> queue_id,
     build_number |-> next_build_number, job_url |-> job_url,
     build_url |-> job_url]

\* The BuildTriggerResult both trigger_build functions assemble.
BuildResult(job_name, queue_id, next_build_number, job_url) ==
    [status |-> "triggered", job_name |-> job_name, queue_id |-> queue_id,
     build_number |-> next_build_number, job_url |-> job_url,
     build_url |-> job_url \o PyStr(next_build_number) \o <<"/">>]

\* f"{job_info.get('url')}": the url, or the text None for a missing key
UrlText(u) == IF IsNone(u) THEN <<"N","o","n","e">> ELSE Val(u)

Endpoint(job_name, parameters) ==
    IF parameters # EmptyDict
    THEN <<"job", job_name, "buildWithParameters">>
    ELSE <<"job", job_name, "build">>

\* main ends: the finally closes the session.
Exit(code) ==
    /\ pc' = "done"
    /\ exit_code' = Some(code)
    /\ xpc' = "idle"

\* main, up to the first call: the one crumb fetch of the script.
main ==
    /\ pc = "start"
    /\ \E o \in Outcomes(CrumbReplies) :
         /\ crumb' = fix_get_jenkins_crumb(o)
         /\ logger' = logger \o fix_get_jenkins_crumb_logging(o)
    /\ argv' \in {[job_name |-> None, parameters |-> EmptyDict]}
                  \cup [job_name : { Some(j) : j \in JobNames },
                        parameters : ParameterSets]
    /\ pc' = "list_jobs"
    /\ UNCHANGED srvvars
    /\ UNCHANGED <<exit_code, fix_job_info, fix_result, xpc, frame, sent,
                   received, fetched, response, refreshed>>

list_jobs ==
    /\ pc = "list_jobs"
    /\ Enter("GET", <<"api", "json">>, None)
    /\ UNCHANGED srvvars
    /\ UNCHANGED <<pc, argv, crumb, exit_code, fix_job_info, fix_result, refreshed,
                   logger>>

\* list_jobs returns to main, which goes on to trigger_build when a job name
\* was given.
list_jobs_return ==
    /\ pc = "list_jobs"
    /\ xpc \in {"returned", "raised"}
    /\ IF \/ xpc = "raised"
          \/ Val(response).status_code = 200 /\ IsNone(Val(response).json)
       THEN Exit(1)
       ELSE IF IsNone(argv.job_name)
            THEN Exit(0)
            ELSE pc' = "job_info" /\ xpc' = "idle" /\ UNCHANGED exit_code
    /\ UNCHANGED srvvars
    /\ UNCHANGED <<argv, crumb, fix_job_info, fix_result, frame, sent, received,
                   fetched, response, refreshed, logger>>

fix_trigger_build ==
    /\ pc = "job_info"
    /\ Enter("GET", <<"job", Val(argv.job_name), "api", "json">>, None)
    /\ UNCHANGED srvvars
    /\ UNCHANGED <<pc, argv, crumb, exit_code, fix_job_info, fix_result, refreshed,
                   logger>>

fix_trigger_build_job_info ==
    /\ pc = "job_info"
    /\ xpc \in {"returned", "raised"}
    /\ IF \/ xpc = "raised"
          \/ Val(response).status_code # 200
          \/ IsNone(Val(response).json)
       THEN Exit(1) /\ UNCHANGED fix_job_info
       ELSE /\ fix_job_info' = Val(response).json
            /\ pc' = "build"
            /\ xpc' = "idle"
            /\ UNCHANGED exit_code
    /\ UNCHANGED srvvars
    /\ UNCHANGED <<argv, crumb, fix_result, frame, sent, received, fetched,
                   response, refreshed, logger>>

fix_trigger_build_post ==
    /\ pc = "build"
    /\ Enter("POST", Endpoint(Val(argv.job_name), argv.parameters),
             Some(argv.parameters))
    /\ UNCHANGED srvvars
    /\ UNCHANGED <<pc, argv, crumb, exit_code, fix_job_info, fix_result, refreshed,
                   logger>>

fix_trigger_build_return ==
    /\ pc = "build"
    /\ xpc \in {"returned", "raised"}
    /\ IF \/ xpc = "raised"
          \/ Val(response).status_code \notin {200, 201, 302}
          \/ QueueIdOf(Val(response).Location).raises
       THEN Exit(1) /\ UNCHANGED fix_result
       ELSE LET info == Val(fix_job_info)
                next_build_number ==
                    IF IsNone(info.nextBuildNumber) THEN 0
                    ELSE Val(info.nextBuildNumber)
            IN  /\ fix_result' =
                       Some(BuildResult(Val(argv.job_name),
                                        QueueIdOf(Val(response).Location).queue_id,
                                        next_build_number, UrlText(info.url)))
                /\ Exit(0)
    /\ UNCHANGED srvvars
    /\ UNCHANGED <<argv, crumb, fix_job_info, frame, sent, received, fetched,
                   response, refreshed, logger>>

\* --------------------------------------------------- jenkins_mcp/server.py
\* Replies of the crumb issuer's XML endpoint: "field:value" as text, and
\* the cookies the exchange left in the requests session.
TextTrue == <<"t","r","u","e">>
CrumbTexts ==
    { <<"J",":","c","1">>, <<"J",":","c","2">>, <<"J",":","c",":","1">>,
      <<"J","c","1">>, <<":">>, NoText }
CookieJars ==
    { EmptyDict, {<<"JSESSIONID", "s1">>}, {<<"JSESSIONID", "s2">>, <<"lb", "a">>} }
XmlCrumbReplies ==
    [status_code : {200, 403}, text : CrumbTexts, cookies : CookieJars]

\* get_jenkins_crumb without the status check.
get_jenkins_crumb_any_status(o) ==
    IF IsNone(o)
    THEN [crumb_data |-> None, session_cookies |-> None]
    ELSE LET r == Val(o) IN
         IF \A i \in 1..Len(r.text) : r.text[i] # ":"
         THEN [crumb_data |-> None, session_cookies |-> None]
         ELSE [crumb_data |-> Some({<<SplitOnce(r.text)[1], SplitOnce(r.text)[2]>>}),
               session_cookies |-> Some(r.cookies)]

\* get_jenkins_crumb keeping the cookies of an exchange whose body it rejects.
get_jenkins_crumb_partial(o) ==
    IF IsNone(o)
    THEN [crumb_data |-> None, session_cookies |-> None]
    ELSE LET r == Val(o) IN
         IF r.status_code # 200
         THEN [crumb_data |-> None, session_cookies |-> None]
         ELSE IF \A i \in 1..Len(r.text) : r.text[i] # ":"
         THEN [crumb_data |-> None, session_cookies |-> Some(r.cookies)]
         ELSE [crumb_data |-> Some({<<SplitOnce(r.text)[1], SplitOnce(r.text)[2]>>}),
               session_cookies |-> Some(r.cookies)]

\* get_jenkins_crumb: (crumb_data, session_cookies), (None, None) on every
\* failure.  `o` is the outcome of session.get on the crumb url.
get_jenkins_crumb(o) ==
    IF IsNone(o)
    THEN [crumb_data |-> None, session_cookies |-> None]     \* except Exception
    ELSE LET r == Val(o) IN
         IF r.status_code # 200
         THEN [crumb_data |-> None, session_cookies |-> None]
         ELSE IF \A i \in 1..Len(r.text) : r.text[i] # ":"
         THEN [crumb_data |-> None, session_cookies |-> None]
         ELSE [crumb_data |-> Some({<<SplitOnce(r.text)[1], SplitOnce(r.text)[2]>>}),
               session_cookies |-> Some(r.cookies)]

EnvValues ==
    { None, Some(TextTrue), Some(<<"T","r","u","e">>), Some(<<"f","a","l","s","e">>) }

\* use_token comparing the variable as written, without lower().
use_token_exact ==
    IF IsNone(env_use_token) THEN FALSE ELSE Val(env_use_token) = TextTrue

\* os.environ.get("JENKINS_USE_API_TOKEN", "false").lower() == "true"
use_token ==
    IF IsNone(env_use_token) THEN FALSE ELSE Lower(Val(env_use_token)) = TextTrue

\* A lifespan that fetches a crumb again while the session runs and stores
\* the new crumb beside the cookies of the first fetch.
jenkins_lifespan_refetching ==
    /\ Len(crumb_gets) < 2
    /\ \E o \in Outcomes(XmlCrumbReplies) :
         /\ crumb_gets' = Append(crumb_gets, o)
         /\ ctx' = IF IsNone(ctx)
                   THEN Some(get_jenkins_crumb(o))
                   ELSE Some([crumb_data |-> get_jenkins_crumb(o).crumb_data,
                              session_cookies |-> Val(ctx).session_cookies])
    /\ UNCHANGED <<tasks, waiting, env_use_token, tpc, calls, args, locals, job_info,
                   lookups, lookup_returns, posts, post_replies, build_jobs,
                   build_job_returns, result, error, caught>>
    /\ UNCHANGED fixvars

\* jenkins_lifespan up to its yield: the client, then the crumb unless a
\* token is in use, then the context.
jenkins_lifespan ==
    /\ IsNone(ctx)
    /\ IF ~use_token
       THEN \E o \in Outcomes(XmlCrumbReplies) :
                 /\ crumb_gets' = Append(crumb_gets, o)
                 /\ ctx' = Some(get_jenkins_crumb(o))
       ELSE /\ crumb_gets' = crumb_gets
            /\ ctx' = Some([crumb_data |-> None, session_cookies |-> None])
    /\ UNCHANGED <<tasks, waiting, env_use_token, tpc, calls, args, locals, job_info, lookups,
                   lookup_returns, posts, post_replies, build_jobs, build_job_returns, result, error,
                   caught>>
    /\ UNCHANGED fixvars

\* The arguments a host may pass: a Python value is its type and, for a str
\* or a dict, its content.
JobNameArgs ==
    { [type |-> "str", value |-> "job-x"], [type |-> "str", value |-> ""],
      [type |-> "int", value |-> "7"] }
\* A dict also tells the type of its values; items holds them as requests
\* writes them into the query string.
ParameterArgs ==
    { [type |-> "NoneType", items |-> EmptyDict, values |-> "str"],
      [type |-> "dict", items |-> EmptyDict, values |-> "str"],
      [type |-> "dict", items |-> {<<"param1", "value1">>, <<"param2", "value2">>},
       values |-> "str"],
      [type |-> "dict", items |-> {<<"param1", "1">>}, values |-> "int"],
      [type |-> "list", items |-> EmptyDict, values |-> "str"] }

\* The endpoint chosen on `parameters is not None`.
HasParameters_not_none(parameters) == parameters.type = "dict"

\* `if parameters:`
HasParameters(parameters) == parameters.type = "dict" /\ parameters.items # EmptyDict

\* The metadata of a job carries url and nextBuildNumber, the two keys
\* trigger_build reads.
JobInfos == [url : {JobUrl}, nextBuildNumber : NextBuildNumbers]
\* client.get_job_info: None where it raises, Some(None) for an empty
\* answer, Some(Some(info)) for the job's metadata.
LookupOutcomes == {None, Some(None)} \cup { Some(Some(j)) : j \in JobInfos }
QueueIds == {123, 124}
\* client.build_job: None where it raises, else the queue id it returns
BuildJobOutcomes == {None} \cup { Some(q) : q \in QueueIds }

NoArgs == [job_name |-> [type |-> "str", value |-> ""],
           parameters |-> [type |-> "NoneType", items |-> EmptyDict, values |-> "str"]]
NoLocals == [crumb_data |-> None, session_cookies |-> None]

\* str(e) of what the python-jenkins client and requests raise
Exceptions == {"timed out", "refused"}

\* The ValueError raised without str(e) in its text.
ValueError_no_cause(message, job_name, cause) ==
    Some([message |-> message, job_name |-> job_name, cause |-> None])

\* ValueError(f"{message} {job_name}: {str(e)}"), by its parts; the argument
\* checks name neither a job nor a cause.
ValueError(message, job_name, cause) ==
    Some([message |-> message, job_name |-> job_name, cause |-> cause])

\* The argument checks with the one on parameters left out.
ArgumentError_job_name_only(job_name, parameters) ==
    IF job_name.type # "str"
    THEN ValueError("job_name must be a string", None, None)
    ELSE None

\* The two isinstance checks: the error of the first that fails, None when
\* both pass.
ArgumentError(job_name, parameters) ==
    IF job_name.type # "str"
    THEN ValueError("job_name must be a string", None, None)
    ELSE IF parameters.type \notin {"NoneType", "dict"}
    THEN ValueError("parameters must be a dictionary or None", None, None)
    ELSE None

\* trigger_build up to its first network call: the argument checks and the
\* reads of the lifespan context.
trigger_build ==
    /\ ~IsNone(ctx)
    /\ tpc \in {"idle", "done", "raised"}
    /\ calls < MaxCalls
    /\ calls' = calls + 1
    /\ \E job_name \in JobNameArgs, parameters \in ParameterArgs :
         /\ args' = [job_name |-> job_name, parameters |-> parameters]
         /\ error' = ArgumentError(job_name, parameters)
         /\ IF ~IsNone(ArgumentError(job_name, parameters))
            THEN /\ tpc' = "raised"
                 /\ locals' = NoLocals
            ELSE /\ tpc' = "lookup"
                 /\ locals' = Val(ctx)
    /\ job_info' = None
    /\ lookups' = <<>>
    /\ lookup_returns' = <<>>
    /\ posts' = <<>>
    /\ post_replies' = <<>>
    /\ build_jobs' = <<>>
    /\ build_job_returns' = <<>>
    /\ result' = None
    /\ caught' = <<>>
    /\ UNCHANGED <<tasks, waiting, env_use_token, ctx, crumb_gets>>
    /\ UNCHANGED fixvars

\* The custom path chosen on the crumb alone.
PreferredPath_crumb_only(l) == Truthy(l.crumb_data)

\* `if crumb_data and session_cookies:`
PreferredPath(l) == Truthy(l.crumb_data) /\ Truthy(l.session_cookies)

\* trigger_build_lookup going on to the submission whatever the lookup gave.
trigger_build_lookup_unchecked ==
    /\ tpc = "lookup"
    /\ lookups' = Append(lookups, args.job_name.value)
    /\ \E o \in LookupOutcomes :
         /\ lookup_returns' = Append(lookup_returns, o)
         /\ job_info' = IF IsNone(o) \/ IsNone(Val(o))
                        THEN Some([url |-> JobUrl, nextBuildNumber |-> 0])
                        ELSE Val(o)
         /\ tpc' = IF PreferredPath_crumb_only(locals) /\ Truthy(locals.session_cookies)
                   THEN "post" ELSE "build_job"
         /\ UNCHANGED <<error, caught>>
    /\ UNCHANGED <<tasks, waiting, env_use_token, ctx, crumb_gets, calls, args, locals, posts,
                   post_replies, build_jobs, build_job_returns, result>>
    /\ UNCHANGED fixvars

\* "First verify the job exists": client.get_job_info and what follows it up
\* to the submission.
trigger_build_lookup ==
    /\ tpc = "lookup"
    /\ lookups' = Append(lookups, args.job_name.value)
    /\ \E o \in LookupOutcomes :
         /\ lookup_returns' = Append(lookup_returns, o)
         /\ IF IsNone(o) \/ IsNone(Val(o))
            THEN \E e \in (IF IsNone(o) THEN Exceptions ELSE {"Job not found"}) :
                 /\ tpc' = "raised"
                 /\ caught' = Append(caught, e)
                 /\ error' = ValueError("Error checking job",
                                        Some(args.job_name.value), Some(e))
                 /\ UNCHANGED job_info
            ELSE /\ job_info' = Val(o)
                 /\ tpc' = IF PreferredPath(locals) THEN "post" ELSE "build_job"
                 /\ UNCHANGED <<error, caught>>
    /\ UNCHANGED <<tasks, waiting, env_use_token, ctx, crumb_gets, calls, args, locals, posts,
                   post_replies, build_jobs, build_job_returns, result>>
    /\ UNCHANGED fixvars

\* PostRequest with a fresh requests session, the stored cookies left out.
PostRequest_no_cookies(a, l) ==
    [url |-> Endpoint(a.job_name.value, IF HasParameters(a.parameters)
                                         THEN a.parameters.items ELSE EmptyDict),
     headers |-> Val(l.crumb_data),
     cookies |-> EmptyDict,
     params |-> IF HasParameters(a.parameters) THEN Some(a.parameters.items) ELSE None]

\* The request of the custom path: the crumb as headers, the session
\* cookies in the requests session, the parameters as query parameters.
PostRequest(a, l) ==
    [url |-> Endpoint(a.job_name.value, IF HasParameters(a.parameters)
                                         THEN a.parameters.items ELSE EmptyDict),
     headers |-> Val(l.crumb_data),
     cookies |-> Val(l.session_cookies),
     params |-> IF HasParameters(a.parameters) THEN Some(a.parameters.items) ELSE None]

\* The statuses the custom path takes for a triggered build.
Accepted(status) == status \in {200, 201}

\* The custom request: the POST, the status check, the queue id.  Any
\* exception in there is logged and the call falls back to client.build_job.
trigger_build_post ==
    /\ tpc = "post"
    /\ posts' = Append(posts, PostRequest(args, locals))
    /\ \E o \in Outcomes(Replies) :
         /\ post_replies' = Append(post_replies, o)
         /\ IF \/ IsNone(o)
               \/ ~Accepted(Val(o).status_code)
               \/ QueueIdOf(Val(o).Location).raises
            THEN \E e \in (IF IsNone(o) THEN Exceptions
                            ELSE IF ~Accepted(Val(o).status_code)
                            THEN {"Failed to trigger build"}
                            ELSE {"list index out of range"}) :
                 /\ tpc' = "build_job"
                 /\ caught' = Append(caught, e)
                 /\ UNCHANGED result
            ELSE /\ tpc' = "done"
                 /\ result' = Some(BuildResult(args.job_name.value,
                                               QueueIdOf(Val(o).Location).queue_id,
                                               Val(job_info).nextBuildNumber,
                                               Val(job_info).url))
                 /\ UNCHANGED caught
    /\ UNCHANGED <<tasks, waiting, env_use_token, ctx, crumb_gets, calls, args, locals, job_info,
                   lookups, lookup_returns, build_jobs, build_job_returns, error>>
    /\ UNCHANGED fixvars

\* FallbackResult reading the build number after the submission, when the
\* job's nextBuildNumber has moved on.
FallbackResult_late_number(a, info, queue_id) ==
    BuildResult(a.job_name.value, queue_id, info.nextBuildNumber + 1, info.url)

\* The dict returned after client.build_job, whose return value is the queue id.
FallbackResult(a, info, queue_id) ==
    BuildResult(a.job_name.value, queue_id, info.nextBuildNumber, info.url)

\* "Use the standard method": client.build_job, whose failure leaves the call
\* with a ValueError.
trigger_build_build_job ==
    /\ tpc = "build_job"
    /\ build_jobs' = Append(build_jobs, [job_name |-> args.job_name.value,
                                         parameters |-> args.parameters])
    /\ \E o \in BuildJobOutcomes :
         /\ build_job_returns' = Append(build_job_returns, o)
         /\ IF IsNone(o)
            THEN \E e \in Exceptions :
                 /\ tpc' = "raised"
                 /\ caught' = Append(caught, e)
                 /\ error' = ValueError("Error triggering build",
                                        Some(args.job_name.value), Some(e))
                 /\ UNCHANGED result
            ELSE /\ tpc' = "done"
                 /\ result' = Some(FallbackResult(args, Val(job_info), o))
                 /\ UNCHANGED <<error, caught>>
    /\ UNCHANGED <<tasks, waiting, env_use_token, ctx, crumb_gets, calls, args, locals, job_info,
                   lookups, lookup_returns, posts, post_replies>>
    /\ UNCHANGED fixvars

\* The trigger_build calls a host may have in flight at once.
Tasks == 1..MaxTasks
NoTask == [at |-> "idle", crumb_data |-> None, session_cookies |-> None]

\* What a step of one of the calls side by side leaves alone: the lifespan
\* context among it, which trigger_build only reads.
TaskFrame ==
    /\ UNCHANGED <<env_use_token, ctx, crumb_gets, tpc, calls, args, locals, job_info,
                   lookups, lookup_returns, posts, post_replies, build_jobs,
                   build_job_returns, result, error, caught, waiting>>
    /\ UNCHANGED fixvars

\* A call is dispatched and gets past its argument checks to
\* `client = ctx.request_context.lifespan_context.client`.
call_trigger_build(t) ==
    /\ ~IsNone(ctx)
    /\ tasks[t].at = "idle"
    /\ tasks' = [tasks EXCEPT ![t].at = "client"]
    /\ TaskFrame

\* `crumb_data = ctx.request_context.lifespan_context.crumb_data`
call_crumb_data(t) ==
    /\ tasks[t].at = "client"
    /\ tasks' = [tasks EXCEPT ![t].at = "crumb_data",
                              ![t].crumb_data = Val(ctx).crumb_data]
    /\ TaskFrame

\* `session_cookies = ctx.request_context.lifespan_context.session_cookies`
call_session_cookies(t) ==
    /\ tasks[t].at = "crumb_data"
    /\ tasks' = [tasks EXCEPT ![t].at = "session_cookies",
                              ![t].session_cookies = Val(ctx).session_cookies]
    /\ TaskFrame

\* The rest of the call, the lookup and the submission under the pair it
\* read: none of it writes to the context.
call_returns(t) ==
    /\ tasks[t].at = "session_cookies"
    /\ tasks' = [tasks EXCEPT ![t].at = "returned"]
    /\ TaskFrame

\* The host cancels a call in flight: the call is dropped where it is.
call_cancelled(t) ==
    /\ tasks[t].at \in {"client", "crumb_data", "session_cookies"}
    /\ tasks' = [tasks EXCEPT ![t].at = "cancelled"]
    /\ TaskFrame

Init ==
    /\ env_use_token \in EnvValues
    /\ ctx = None
    /\ crumb_gets = <<>>
    /\ tpc = "idle"
    /\ calls = 0
    /\ args = NoArgs
    /\ locals = NoLocals
    /\ job_info = None
    /\ lookups = <<>>
    /\ lookup_returns = <<>>
    /\ posts = <<>>
    /\ post_replies = <<>>
    /\ build_jobs = <<>>
    /\ build_job_returns = <<>>
    /\ result = None
    /\ error = None
    /\ caught = <<>>
    /\ waiting = None
    /\ tasks = [t \in Tasks |-> NoTask]
    /\ pc = "start"
    /\ argv = [job_name |-> None, parameters |-> EmptyDict]
    /\ crumb = None
    /\ exit_code = None
    /\ fix_job_info = None
    /\ fix_result = None
    /\ xpc = "idle"
    /\ frame = NoFrame
    /\ sent = <<>>
    /\ received = <<>>
    /\ fetched = <<>>
    /\ response = None
    /\ refreshed = None
    /\ logger = <<>>

Next ==
    \/ jenkins_lifespan
    \/ trigger_build
    \/ trigger_build_lookup
    \/ trigger_build_post
    \/ trigger_build_build_job

Spec == Init /\ [][Next]_vars

\* requests is called without timeout=, so a call the server never answers
\* does not return: session.get of get_jenkins_crumb in the lifespan.
get_jenkins_crumb_unanswered ==
    /\ IsNone(waiting)
    /\ IsNone(ctx)
    /\ ~use_token
    /\ waiting' = Some("session.get")
    /\ UNCHANGED <<tasks, env_use_token, ctx, crumb_gets, tpc, calls, args, locals, job_info,
                   lookups, lookup_returns, posts, post_replies, build_jobs,
                   build_job_returns, result, error, caught>>
    /\ UNCHANGED fixvars

\* session.post of the custom request, sent and never answered.
trigger_build_post_unanswered ==
    /\ IsNone(waiting)
    /\ tpc = "post"
    /\ posts' = Append(posts, PostRequest(args, locals))
    /\ waiting' = Some("session.post")
    /\ UNCHANGED <<tasks, env_use_token, ctx, crumb_gets, tpc, calls, args, locals, job_info,
                   lookups, lookup_returns, post_replies, build_jobs,
                   build_job_returns, result, error, caught>>
    /\ UNCHANGED fixvars

\* The server against a Jenkins that may leave a request unanswered: a
\* blocked process takes no further step.
NextUnanswered ==
    \/ IsNone(waiting) /\ Next
    \/ get_jenkins_crumb_unanswered
    \/ trigger_build_post_unanswered

SpecUnanswered == Init /\ [][NextUnanswered]_vars

\* The server with several trigger_build calls in flight, interleaved line
\* by line and open to cancellation.
NextConcurrent ==
    \/ jenkins_lifespan
    \/ \E t \in Tasks : call_trigger_build(t)
    \/ \E t \in Tasks : call_crumb_data(t)
    \/ \E t \in Tasks : call_session_cookies(t)
    \/ \E t \in Tasks : call_returns(t)
    \/ \E t \in Tasks : call_cancelled(t)

SpecConcurrent == Init /\ [][NextConcurrent]_vars

NextFix ==
    \/ main
    \/ list_jobs
    \/ list_jobs_return
    \/ fix_trigger_build
    \/ fix_trigger_build_job_info
    \/ fix_trigger_build_post
    \/ fix_trigger_build_return
    \/ make_jenkins_request
    \/ refresh_crumb

SpecFix == Init /\ [][NextFix]_vars

\* ---------------------------------------------------------------- claims
\* An executor call has ended: it returned a response or raised.
ExecutorEnded == xpc \in {"returned", "raised"}

\* The first response of the running executor call is a 403 whose text holds
\* one of the marker texts 'No valid crumb' / 'Invalid crumb'.
FirstRejected ==
    /\ Len(received) >= 1
    /\ received[1].status_code = 403
    /\ MentionsCrumb(received[1].text)

\* The second request is the first one again, under the crumb c.
RetriedWith(c) ==
    /\ Len(sent) = 2
    /\ sent[2].method = sent[1].method
    /\ sent[2].path = sent[1].path
    /\ sent[2].params = sent[1].params
    /\ sent[2].data = sent[1].data
    /\ sent[2].headers = c

\* C1, as stated: whenever the first response is a 403 with a crumb marker,
\* the executor re-fetches a crumb, sends the same request exactly once more
\* under the new crumb and returns the second response.
C1_Original ==
    (xpc = "returned" /\ FirstRejected) =>
        /\ Len(fetched) = 1
        /\ Truthy(fetched[1])
        /\ RetriedWith(Val(fetched[1]))
        /\ Len(received) = 2
        /\ response = Some(received[2])

\* C1, amended: whenever the first response is a 403 with a crumb marker the
\* executor re-fetches a crumb exactly once; when that re-fetch yields a
\* crumb, it sends the same request (method, path, params, data) exactly once
\* more, carrying the new crumb as its only crumb header, and what it returns
\* is the response of that second attempt.
C1_RetryOnceWithNewCrumb ==
    (ExecutorEnded /\ FirstRejected) =>
        /\ Len(fetched) = 1
        /\ Truthy(fetched[1]) =>
             /\ RetriedWith(Val(fetched[1]))
             /\ xpc = "returned" => (Len(received) = 2 /\ response = Some(received[2]))

\* C1's case: a call that was rejected, refreshed to another crumb than the
\* one it was given, retried and returned.
C1_Witness ==
    /\ xpc = "returned"
    /\ FirstRejected
    /\ Len(sent) = 2
    /\ sent[1].headers # EmptyDict
    /\ sent[2].headers # sent[1].headers
    /\ response = Some(received[2])

\* C2: one executor call sends at most two requests and re-fetches the crumb
\* at most once, whatever the server answers; the response to the second
\* request, a 403 with a crumb marker included, is what the call returns.
C2_AtMostOneRetry ==
    /\ Len(sent) <= 2
    /\ Len(fetched) <= 1
    /\ Len(received) = 2 =>
         /\ xpc \in {"returned", "idle"}
         /\ response = Some(received[2])

\* C2's case: the retried request was rejected over the crumb again and that
\* rejection was returned.
C2_Witness ==
    /\ xpc = "returned"
    /\ Len(received) = 2
    /\ received[2].status_code = 403
    /\ MentionsCrumb(received[2].text)
    /\ response = Some(received[2])
    /\ Len(fetched) = 1

\* -- trigger_build of the server
CallEnded == tpc \in {"done", "raised"}

\* The job lookup of the running call failed: it raised or gave nothing.
LookupFailed ==
    /\ Len(lookup_returns) = 1
    /\ IsNone(lookup_returns[1]) \/ IsNone(Val(lookup_returns[1]))

JobFound == Len(lookup_returns) = 1 /\ ~LookupFailed

\* The job info the lookup of the running call returned.
FoundInfo == Val(Val(lookup_returns[1]))

\* The one build_job call the caller's arguments ask for.
CallersBuildJob ==
    [job_name |-> args.job_name.value, parameters |-> args.parameters]

ResultKeys == {"status", "job_name", "queue_id", "build_number", "job_url", "build_url"}

\* C3: when the job lookup fails (raises or returns empty job info) the call
\* ends with the job-lookup error and submits nothing: no POST of its own
\* and no client.build_job.
C3_NoSubmissionForMissingJob ==
    LookupFailed =>
        /\ tpc = "raised"
        /\ ~IsNone(error)
        /\ Val(error).message = "Error checking job"
        /\ result = None
        /\ posts = <<>>
        /\ build_jobs = <<>>

\* C3's case: a failed lookup in a session whose crumb and cookies would
\* have sent the call down the custom path.
C3_Witness ==
    /\ LookupFailed
    /\ tpc = "raised"
    /\ Truthy(locals.crumb_data)
    /\ Truthy(locals.session_cookies)

\* The custom POST of the running call failed: it raised or was answered 5xx.
PostFailed ==
    /\ Len(post_replies) = 1
    /\ \/ IsNone(post_replies[1])
       \/ Val(post_replies[1]).status_code \in 500..599

\* C4: in a crumb-based session, after a failed custom POST (transport error
\* or 5xx) the call invokes client.build_job exactly once with (job_name,
\* parameters); the value that call returns is the queue_id of the returned
\* result, which has the usual keys and the nextBuildNumber read from the job
\* info before the attempt as build_number.
C4_FallbackAfterFailedPost ==
    PostFailed =>
        /\ tpc \in {"build_job", "done", "raised"}
        /\ CallEnded =>
             /\ build_jobs = <<CallersBuildJob>>
             /\ Len(build_job_returns) = 1
             /\ ~IsNone(build_job_returns[1]) =>
                  /\ tpc = "done"
                  /\ ~IsNone(result)
                  /\ DOMAIN Val(result) = ResultKeys
                  /\ Val(result).status = "triggered"
                  /\ Val(result).job_name = args.job_name.value
                  /\ Val(result).queue_id = build_job_returns[1]
                  /\ Val(result).build_number = FoundInfo.nextBuildNumber

\* C4's case: the custom POST was answered 500 and the call returned the
\* fallback's queue id.
C4_Witness ==
    /\ PostFailed
    /\ ~IsNone(post_replies[1])
    /\ Val(post_replies[1]).status_code = 500
    /\ tpc = "done"
    /\ Val(result).queue_id = Some(123)

\* C5: a custom POST answered 200, 201 or 302 is a success: the call returns
\* a result with status 'triggered' and client.build_job is not invoked.
\* (Stated for the responses whose Location header, if any, parses without
\* an IndexError; C6 is about the others.)
C5_AcceptedStatuses ==
    ( /\ Len(post_replies) = 1
      /\ ~IsNone(post_replies[1])
      /\ Val(post_replies[1]).status_code \in {200, 201, 302}
      /\ ~QueueIdOf(Val(post_replies[1]).Location).raises ) =>
        /\ tpc = "done"
        /\ build_jobs = <<>>
        /\ Val(result).status = "triggered"

\* C6, for a Location value the claim names: after an accepted custom POST
\* whose Location header holds no '/' at all, the call returns a result with
\* queue_id None, raises nothing and does not take the fallback path.
C6_NoQueueIdWithoutFallback ==
    ( /\ Len(post_replies) = 1
      /\ ~IsNone(post_replies[1])
      /\ Val(post_replies[1]).status_code \in {200, 201}
      /\ ~IsNone(Val(post_replies[1]).Location)
      /\ LET l == Val(Val(post_replies[1]).Location) IN
           l # <<>> /\ \A i \in 1..Len(l) : l[i] # "/" ) =>
        /\ tpc = "done"
        /\ build_jobs = <<>>
        /\ Val(result).queue_id = None

\* JENKINS_USE_API_TOKEN is set to "true", in any letter case.
TokenSession ==
    /\ ~IsNone(env_use_token)
    /\ Val(env_use_token) \in {TextTrue, <<"T","r","u","e">>}

\* C7: a token-based session never calls the crumb endpoint, and its crumb
\* and cookies are absent in every state, for the context and for every
\* call that reads it.
C7_TokenSessionHasNoCrumb ==
    TokenSession =>
        /\ crumb_gets = <<>>
        /\ ~IsNone(ctx) => Val(ctx) = NoLocals
        /\ locals = NoLocals
        /\ posts = <<>>

\* C7's case: a session started with JENKINS_USE_API_TOKEN=True that has
\* served a trigger_build call.
C7_Witness ==
    /\ env_use_token = Some(<<"T","r","u","e">>)
    /\ ~IsNone(ctx)
    /\ tpc = "done"

\* The session has no crumb or no cookies.
NoCrumbOrCookies ==
    /\ ~IsNone(ctx)
    /\ \/ IsNone(Val(ctx).crumb_data)
       \/ IsNone(Val(ctx).session_cookies)
       \/ Val(Val(ctx).session_cookies) = EmptyDict

\* C8: in a session without crumb or without cookies, a call for an existing
\* job makes no POST of its own and invokes client.build_job exactly once
\* with (job_name, parameters=the caller's parameters); the value that call
\* returns is the queue_id of the result.
C8_FallbackWithoutCrumb ==
    NoCrumbOrCookies =>
        /\ posts = <<>>
        /\ tpc # "post"
        /\ (JobFound /\ CallEnded) =>
             /\ build_jobs = <<CallersBuildJob>>
             /\ Len(build_job_returns) = 1
             /\ ~IsNone(build_job_returns[1]) =>
                  /\ tpc = "done"
                  /\ Val(result).queue_id = build_job_returns[1]

\* C8's case: a crumb was fetched but the exchange set no cookie, and a
\* call with parameters went through client.build_job.
C8_Witness ==
    /\ NoCrumbOrCookies
    /\ ~IsNone(Val(ctx).crumb_data)
    /\ HasParameters(args.parameters)
    /\ tpc = "done"
    /\ Val(result).queue_id = Some(124)

\* The session holds a crumb and cookies.
HoldsCrumbAndCookies ==
    /\ ~IsNone(ctx)
    /\ ~IsNone(Val(ctx).crumb_data)
    /\ ~IsNone(Val(ctx).session_cookies)
    /\ Val(Val(ctx).session_cookies) # EmptyDict

\* C9: in a session that holds a crumb and cookies, a call for an existing
\* job makes its custom POST, and that request carries the session's crumb
\* as header (field name mapped to value) and every session cookie.
C9_PostCarriesCrumbAndCookies ==
    HoldsCrumbAndCookies =>
        /\ JobFound => (tpc = "post" \/ Len(posts) = 1)
        /\ \A i \in 1..Len(posts) :
             /\ posts[i].headers = Val(Val(ctx).crumb_data)
             /\ posts[i].cookies = Val(Val(ctx).session_cookies)

\* C9's case: a custom POST was sent under a crumb whose value holds a ':'
\* and with the two cookies of the session.
C9_Witness ==
    /\ Len(posts) = 1
    /\ posts[1].headers = {<< <<"J">>, <<"c",":","1">> >>}
    /\ Cardinality(posts[1].cookies) = 2

\* The crumb fetch whose outcome is o gave no crumb.
FetchFailed(o) ==
    \/ IsNone(o)
    \/ Val(o).status_code # 200
    \/ \A i \in 1..Len(Val(o).text) : Val(o).text[i] # ":"

\* C10: a session that does not use a token makes exactly one crumb fetch;
\* when that fetch fails the context is still created, with crumb and
\* cookies absent, and a trigger_build call for an existing job goes on to
\* client.build_job: it ends in error only when that call raises.
C10_OneFetchAndFailureIsNotFatal ==
    ~TokenSession =>
        /\ Len(crumb_gets) = (IF IsNone(ctx) THEN 0 ELSE 1)
        /\ (~IsNone(ctx) /\ FetchFailed(crumb_gets[1])) =>
             /\ Val(ctx) = NoLocals
             /\ JobFound => tpc \in {"build_job", "done", "raised"}
             /\ (JobFound /\ CallEnded) =>
                  /\ Len(build_jobs) = 1
                  /\ (tpc = "raised") = IsNone(build_job_returns[1])

\* C10's case: the crumb endpoint answered 403, and the second call of the
\* session still triggered a build.
C10_Witness ==
    /\ ~TokenSession
    /\ ~IsNone(ctx)
    /\ ~IsNone(crumb_gets[1])
    /\ Val(crumb_gets[1]).status_code = 403
    /\ calls = 2
    /\ tpc = "done"

\* -- get_jenkins_crumb of the server
\* The lifespan has got the return value of its get_jenkins_crumb call.
FetchReturned == Len(crumb_gets) = 1 /\ ~IsNone(ctx)

\* C11: get_jenkins_crumb never raises and never returns half a result: the
\* lifespan always gets a pair back, crumb and cookies are both there or both
\* absent, and both are absent after a network failure of the GET, after a
\* status other than 200 and after a body that holds no ':'.
C11_FetchAllOrNothing ==
    /\ Len(crumb_gets) = 1 => ~IsNone(ctx)
    /\ FetchReturned =>
         /\ IsNone(Val(ctx).crumb_data) = IsNone(Val(ctx).session_cookies)
         /\ IsNone(crumb_gets[1]) => Val(ctx) = NoLocals
         /\ (~IsNone(crumb_gets[1]) /\ Val(crumb_gets[1]).status_code # 200) =>
              Val(ctx) = NoLocals
         /\ ( /\ ~IsNone(crumb_gets[1])
              /\ \A i \in 1..Len(Val(crumb_gets[1]).text) :
                   Val(crumb_gets[1]).text[i] # ":" ) =>
              Val(ctx) = NoLocals

\* C11's case: the crumb endpoint answered 403 with a well-formed crumb body
\* and cookies, and the lifespan got (None, None).
C11_Witness ==
    /\ FetchReturned
    /\ ~IsNone(crumb_gets[1])
    /\ Val(crumb_gets[1]).status_code = 403
    /\ Val(crumb_gets[1]).text = <<"J",":","c","1">>
    /\ Val(crumb_gets[1]).cookies # EmptyDict
    /\ Val(ctx) = NoLocals

\* The crumb endpoint answered 200 with a body of the form field:value.
FetchedWellFormed ==
    /\ FetchReturned
    /\ ~IsNone(crumb_gets[1])
    /\ Val(crumb_gets[1]).status_code = 200
    /\ \E i \in 1..Len(Val(crumb_gets[1]).text) : Val(crumb_gets[1]).text[i] = ":"

\* C12: for a 200 response whose body is field:value the crumb is the single
\* pair (field, value) with field free of ':' and field ':' value equal to
\* the body, so that value is everything after the first ':'; the cookies
\* returned are those of the exchange.
C12_CrumbIsFieldAndValue ==
    FetchedWellFormed =>
        /\ ~IsNone(Val(ctx).crumb_data)
        /\ \E f, v \in { SubSeq(Val(crumb_gets[1]).text, a, b) :
                           a \in 1..(Len(Val(crumb_gets[1]).text) + 1),
                           b \in 0..Len(Val(crumb_gets[1]).text) } :
             /\ Val(Val(ctx).crumb_data) = {<<f, v>>}
             /\ \A i \in 1..Len(f) : f[i] # ":"
             /\ f \o <<":">> \o v = Val(crumb_gets[1]).text
        /\ Val(ctx).session_cookies = Some(Val(crumb_gets[1]).cookies)

\* C12's case: the body J:c:1, whose value holds a ':', with two cookies.
C12_Witness ==
    /\ FetchedWellFormed
    /\ Val(crumb_gets[1]).text = <<"J",":","c",":","1">>
    /\ Val(Val(ctx).crumb_data) = {<< <<"J">>, <<"c",":","1">> >>}
    /\ Cardinality(Val(Val(ctx).session_cookies)) = 2

\* -- the request of the custom path
\* C13: every POST trigger_build sends itself goes to
\* job/{name}/buildWithParameters with exactly the supplied pairs as its
\* query parameters when the parameters of the call are a non-empty dict, and
\* to job/{name}/build with no query parameter when they are None or {}.
C13_EndpointFollowsParameters ==
    \A i \in 1..Len(posts) :
        IF args.parameters.type = "dict" /\ args.parameters.items # {}
        THEN /\ posts[i].url = <<"job", args.job_name.value, "buildWithParameters">>
             /\ posts[i].params = <<args.parameters.items>>
        ELSE /\ posts[i].url = <<"job", args.job_name.value, "build">>
             /\ posts[i].params = <<>>

\* C13's case: the call with param1 and param2 has POSTed to
\* buildWithParameters with the two pairs.
C13_Witness ==
    /\ Len(posts) = 1
    /\ posts[1].url = <<"job", "job-x", "buildWithParameters">>
    /\ posts[1].params = << {<<"param1", "value1">>, <<"param2", "value2">>} >>

\* -- the argument checks
\* The call runs with a job name that is no non-empty string or with
\* parameters that are neither None nor a dict of strings.
MalformedArguments ==
    /\ calls >= 1
    /\ \/ args.job_name.type # "str"
       \/ args.job_name.value = ""
       \/ args.parameters.type \notin {"NoneType", "dict"}
       \/ args.parameters.type = "dict" /\ args.parameters.values # "str"

\* The call runs with a job name that is no str or with parameters that are
\* neither None nor a dict.
WrongArgumentTypes ==
    /\ calls >= 1
    /\ \/ args.job_name.type # "str"
       \/ args.parameters.type \notin {"NoneType", "dict"}

\* The call was rejected on its arguments before any network call.
RejectedUnsent ==
    /\ tpc = "raised"
    /\ ~IsNone(error)
    /\ Val(error).message \in {"job_name must be a string",
                               "parameters must be a dictionary or None"}
    /\ result = <<>>
    /\ lookups = <<>>
    /\ posts = <<>>
    /\ build_jobs = <<>>

\* C14 as stated: a call whose job name is not a non-empty string, or whose
\* parameters are neither absent nor a key-to-string mapping, is rejected
\* before any network call.
C14_Original == MalformedArguments => RejectedUnsent

\* C14: a call whose job name is not a str, or whose parameters are neither
\* None nor a dict, ends with the ValueError of the argument checks and
\* without a job lookup, a POST or a build_job call.
C14_WrongTypesRejectedUnsent == WrongArgumentTypes => RejectedUnsent

\* C14's case: a call for job-x with a list as parameters was rejected.
C14_Witness ==
    /\ WrongArgumentTypes
    /\ args.job_name = [type |-> "str", value |-> "job-x"]
    /\ args.parameters.type = "list"
    /\ RejectedUnsent
    /\ Val(error).message = "parameters must be a dictionary or None"

\* -- the returned dict
\* The custom POST of the running call was taken for the triggered build.
PostSucceeded ==
    /\ tpc = "done"
    /\ Len(post_replies) = 1
    /\ build_jobs = <<>>

\* The Location header of the reply to the custom POST.
PostLocation == Val(post_replies[1]).Location

\* C15: every dict trigger_build returns, after the custom POST and after
\* client.build_job alike, has status "triggered", the job name of the call,
\* the nextBuildNumber and the url of the job info the lookup returned, and as
\* build_url that url followed by the decimal build number and "/"; when the
\* custom POST succeeded with a Location that ends in /item/<digits>/ the
\* queue_id is the number those digits write.
C15_ResultFields ==
    (tpc = "done" /\ ~IsNone(result)) =>
        /\ Val(result).status = "triggered"
        /\ Val(result).job_name = args.job_name.value
        /\ Val(result).build_number = FoundInfo.nextBuildNumber
        /\ Val(result).job_url = FoundInfo.url
        /\ \E d1, d2 \in 1..10 :
             /\ FoundInfo.nextBuildNumber = 10 * (d1 - 1) + (d2 - 1)
             /\ d1 > 1
             /\ Val(result).build_url =
                  FoundInfo.url \o <<DigitChars[d1], DigitChars[d2], "/">>
        /\ (PostSucceeded /\ ~IsNone(PostLocation)) =>
             \A k \in 1..Len(Val(PostLocation)), ds \in {<<"1","2">>, <<"3">>} :
                 SubSeq(Val(PostLocation), k, Len(Val(PostLocation)))
                     = <<"/","i","t","e","m","/">> \o ds \o <<"/">>
                 => Val(result).queue_id = <<DecimalValue(ds)>>

\* C15's case: the custom POST was answered 201 with Location q/item/12/ for
\* a job whose next build is 42.
C15_Witness ==
    /\ PostSucceeded
    /\ Val(post_replies[1]).status_code = 201
    /\ PostLocation = <<LocQueueItem>>
    /\ FoundInfo.nextBuildNumber = 42
    /\ Val(result).queue_id = <<12>>
    /\ Val(result).build_number = 42
    /\ Val(result).build_url = <<"j", "/", "4", "2", "/">>

\* -- the crumb after a refresh
\* C16: once a re-fetch of an executor call has given a new crumb, the first
\* request of every later executor call of the session carries that crumb
\* as its headers.
C16_NextCallSendsRefreshedCrumb ==
    [][ (sent = <<>> /\ Len(sent') = 1 /\ ~IsNone(refreshed))
        => sent'[1].headers = Val(refreshed) ]_vars

\* -- the end of a call after the lookup
\* client.build_job was called and raised.
BuildJobRaised == Len(build_job_returns) = 1 /\ IsNone(build_job_returns[1])

\* C17: a call whose job lookup succeeded ends with exactly one of a returned
\* dict and a ValueError; when client.build_job raised, whether after a
\* failed custom POST or without one, it ends with the ValueError "Error
\* triggering build" that names the job and holds str(e) of what build_job
\* raised, and returns nothing.
C17_FallbackFailureRaises ==
    (JobFound /\ CallEnded) =>
        /\ IsNone(result) # IsNone(error)
        /\ tpc = "done" <=> ~IsNone(result)
        /\ BuildJobRaised =>
             /\ tpc = "raised"
             /\ IsNone(result)
             /\ ~IsNone(error)
             /\ Val(error).message = "Error triggering build"
             /\ Val(error).job_name = <<args.job_name.value>>
             /\ Val(error).cause = <<caught[Len(caught)]>>
             /\ caught[Len(caught)] \in {"timed out", "refused"}

\* C17's case: the custom POST of a call for job-x raised, then
\* client.build_job was refused.
C17_Witness ==
    /\ JobFound
    /\ CallEnded
    /\ Len(post_replies) = 1
    /\ IsNone(post_replies[1])
    /\ BuildJobRaised
    /\ caught = <<"timed out", "refused">>
    /\ error = << [message |-> "Error triggering build", job_name |-> <<"job-x">>,
                   cause |-> <<"refused">>] >>
    /\ IsNone(result)

\* -- the log of get_jenkins_crumb
\* C18: no record get_jenkins_crumb hands to logger holds a crumb value: a
\* record holds a status code or a field name at most, and a response body
\* only when that body has no crumb in it, so that the records written for
\* two responses that differ in the crumb value alone are the same.
C18_LogHoldsNoCrumbValue ==
    \A i \in 1..Len(logger) :
        \/ IsNone(logger[i].body)
        \/ IsNone(Val(logger[i].body).json)
        \/ IsNone(Val(Val(logger[i].body).json).crumb)

\* -- responses the executor does not retry
\* The first response of the running executor call is a 403 whose text holds
\* 'No valid crumb' or 'Invalid crumb'.
FirstHoldsMarker ==
    /\ received[1].status_code = 403
    /\ \/ Contains(TextNoValidCrumb, received[1].text)
       \/ Contains(TextInvalidCrumb, received[1].text)

\* C19: when the first response of an executor call is not a 403 with a
\* marker text, that response is what the call returns: the call sent one
\* request, fetched no crumb and did not raise.
C19_OtherResponsesReturnedAsIs ==
    (Len(received) >= 1 /\ ~FirstHoldsMarker) =>
        /\ xpc \in {"returned", "idle"}
        /\ Len(sent) = 1
        /\ Len(received) = 1
        /\ fetched = <<>>
        /\ response = <<received[1]>>

\* C19's case: the call was answered 403 Forbidden, without a marker, and
\* returned that response.
C19_Witness ==
    /\ xpc = "returned"
    /\ Len(received) = 1
    /\ received[1].status_code = 403
    /\ received[1].text = TextForbidden
    /\ ~FirstHoldsMarker
    /\ Len(sent) = 1
    /\ response = <<received[1]>>

\* -- an unanswered request
\* C20: a trigger_build call that has not ended and a lifespan that has not
\* got its crumb can always take a step, also when the server leaves a
\* request unanswered: no HTTP call waits forever.
C20_NoCallWaitsForever ==
    /\ tpc \in {"lookup", "post", "build_job"} => ENABLED NextUnanswered
    /\ IsNone(ctx) => ENABLED NextUnanswered

\* -- the order of the steps of a call
\* The server answered the custom POST of the running call with a status
\* trigger_build itself takes for success.
PostAcceptedByServer ==
    /\ Len(post_replies) = 1
    /\ ~IsNone(post_replies[1])
    /\ Val(post_replies[1]).status_code \in {200, 201}

\* C21: a call submits only after its job lookup has found the job, sends
\* its custom POST before any client.build_job call, and once the server has
\* answered that POST 200 or 201 the call ends with a returned dict and
\* client.build_job is not called, so that one call submits one accepted
\* build at most.
C21_OneAcceptedSubmission ==
    /\ (posts # <<>> \/ build_jobs # <<>>) => JobFound
    /\ Len(posts) <= 1
    /\ Len(build_jobs) <= 1
    /\ (build_jobs # <<>> /\ posts # <<>>) => Len(post_replies) = 1
    /\ PostAcceptedByServer =>
         /\ tpc = "done"
         /\ ~IsNone(result)
         /\ build_jobs = <<>>

\* -- the context under calls side by side
\* The pair p is (None, None), or crumb and cookies of the session's one
\* crumb fetch: the cookies of that exchange and the field and value its
\* body wrote.
FromOneFetch(p) ==
    \/ IsNone(p.crumb_data) /\ IsNone(p.session_cookies)
    \/ /\ ~IsNone(p.crumb_data)
       /\ ~IsNone(p.session_cookies)
       /\ Len(crumb_gets) = 1
       /\ ~IsNone(crumb_gets[1])
       /\ Val(p.session_cookies) = Val(crumb_gets[1]).cookies
       /\ Cardinality(Val(p.crumb_data)) = 1
       /\ \A fv \in Val(p.crumb_data) :
            fv[1] \o <<":">> \o fv[2] = Val(crumb_gets[1]).text

\* C22: with calls dispatched side by side and cancelled anywhere, the
\* session fetches a crumb once at most, the (crumb_data, session_cookies) of
\* its context is (None, None) or the pair of that one fetch, and so is the
\* pair every call has read.
C22_PairFromOneFetch ==
    /\ Len(crumb_gets) <= 1
    /\ ~IsNone(ctx) => FromOneFetch(Val(ctx))
    /\ \A t \in Tasks :
         tasks[t].at \in {"session_cookies", "returned"} =>
            /\ FromOneFetch(tasks[t])
            /\ tasks[t].crumb_data = Val(ctx).crumb_data
            /\ tasks[t].session_cookies = Val(ctx).session_cookies

\* C22's case: in a session with a crumb, one call was cancelled in flight,
\* another is between its two reads and the context holds the pair of the
\* fetch.
C22_Witness ==
    /\ ~IsNone(ctx)
    /\ ~IsNone(Val(ctx).crumb_data)
    /\ Val(ctx).session_cookies = <<{<<"JSESSIONID", "s2">>, <<"lb", "a">>}>>
    /\ FromOneFetch(Val(ctx))
    /\ \E t, u \in Tasks :
         /\ tasks[t].at = "cancelled"
         /\ tasks[u].at = "crumb_data"
         /\ ~IsNone(tasks[u].crumb_data)
         /\ IsNone(tasks[u].session_cookies)

\* -- the letter case of the marker
\* The text holds 'no valid crumb' or 'invalid crumb' in some letter case.
HoldsMarkerInAnyCase(text) ==
    \/ Contains(TextLowerNoValidCrumb, Lower(text))
    \/ Contains(<<"i","n","v","a","l","i","d"," ","c","r","u","m","b">>, Lower(text))

\* The text holds 'No valid crumb' or 'Invalid crumb' as written.
HoldsMarkerAsWritten(text) ==
    \/ Contains(TextNoValidCrumb, text)
    \/ Contains(TextInvalidCrumb, text)

\* The running executor call has ended and its first response was a 403.
EndedAfterFirst403 ==
    /\ ExecutorEnded
    /\ Len(received) >= 1
    /\ received[1].status_code = 403

\* C23 as stated: a first 403 whose body holds a marker in any letter case
\* makes the executor re-fetch the crumb.
C23_Original ==
    (EndedAfterFirst403 /\ HoldsMarkerInAnyCase(received[1].text)) =>
        Len(fetched) = 1

\* C23: the marker is matched as written: a first 403 makes the executor
\* re-fetch the crumb exactly when its body holds 'No valid crumb' or
\* 'Invalid crumb' in that letter case, and a 403 that holds a marker in
\* another letter case only is returned after one request.
C23_MarkerMatchedAsWritten ==
    EndedAfterFirst403 =>
        /\ Len(fetched) = 1 <=> HoldsMarkerAsWritten(received[1].text)
        /\ ( /\ HoldsMarkerInAnyCase(received[1].text)
             /\ ~HoldsMarkerAsWritten(received[1].text) ) =>
               /\ fetched = <<>>
               /\ Len(sent) = 1
               /\ response = <<received[1]>>

\* C23's case: a first 403 with the body INVALID CRUMB was returned without
\* a re-fetch.
C23_Witness ==
    /\ EndedAfterFirst403
    /\ received[1].text = TextUpperInvalidCrumb
    /\ HoldsMarkerInAnyCase(received[1].text)
    /\ fetched = <<>>
    /\ Len(sent) = 1
    /\ xpc = "returned"
    /\ response = <<received[1]>>

\* -- a re-fetch that gives no crumb
\* The re-fetch of the running executor call gave no crumb.
RefetchGaveNothing == Len(fetched) >= 1 /\ ~Truthy(fetched[1])

\* C24: when the re-fetch after a first 403 with a marker gives no crumb,
\* the executor sends no second request and returns that first 403: the call
\* has sent one request, received one response and returned it.
C24_NoRetryWithoutNewCrumb ==
    RefetchGaveNothing =>
        /\ Len(fetched) = 1
        /\ Len(sent) = 1
        /\ Len(received) = 1
        /\ received[1].status_code = 403
        /\ HoldsMarkerAsWritten(received[1].text)
        /\ xpc \in {"returned", "idle"}
        /\ response = <<received[1]>>

\* C24's case: a call sent with the crumb c1 was rejected, the crumb issuer
\* answered the re-fetch with 404 and the call returned the 403.
C24_Witness ==
    /\ RefetchGaveNothing
    /\ xpc = "returned"
    /\ sent[1].headers = {<<"Jenkins-Crumb", "c1">>}
    /\ Len(sent) = 1
    /\ received[1].status_code = 403
    /\ received[1].text = TextWrappedNoValidCrumb
    /\ response = <<received[1]>>
    /\ logger[Len(logger)].status = <<404>>

====
